---- MODULE Spec2Model ----
(***************************************************************************)
(* Financial aggregation engine of the transport-company accounting        *)
(* application: the dashboard statistics, the Profit & Loss report and the *)
(* cash-flow forecast of server/routes.ts, over the repository of          *)
(* server/storage.ts and the records of shared/schema.ts; and the widget   *)
(* configuration of the dashboard page of the client.                      *)
(*                                                                         *)
(* Specifications                                                          *)
(*   - Spec: report requests, one at a time, with writes and clock ticks;  *)
(*   - RaceSpec: one P&L request racing with several writes;               *)
(*   - WidgetSpec: the widget dialog of the dashboard page.                *)
(*                                                                         *)
(* Conventions of the model                                                *)
(*   - a calendar date "YYYY-MM-DD" is the integer YYYYMMDD and a billing  *)
(*     period "YYYY-MM" the integer YYYYMM: for well-formed strings the    *)
(*     lexicographic order of the code is the integer order;               *)
(*   - a stored decimal(12,2) column is a record holding its text class    *)
(*     and its value in cents; parseFloat turns it into a number;          *)
(*   - a JavaScript number is an exact rational in cents, or NaN: the      *)
(*     rounding of IEEE doubles is not modelled;                           *)
(*   - the server's time zone is not fixed by the repository: tz is the    *)
(*     sign of its UTC offset, chosen once in Init.                        *)
(***************************************************************************)
EXTENDS Integers, Sequences, FiniteSets, TLC

\* ------------------------------------------------------------------ bounds

\* Create/update/delete operations on the repository in one behaviour.
MaxWrites == 1
\* Clock ticks in one behaviour.
MaxTicks == 1
\* Create/update/delete operations in one behaviour of the race of a P&L
\* request with writes.
MaxRaceWrites == 2
\* toggleWidget and moveWidget operations in one behaviour.
MaxOps == 3

\* --------------------------------------------------------------- constants

\* Employer CPF rate in percent (salary * 0.17).
CPF_RATE_PCT == 17
\* periodMonths when the query gives none (parseInt(...) || 6).
DEFAULT_PERIOD == 6
\* recentIncome / recentExpenses: income.slice(0, 5).
RECENT_LIMIT == 5
\* monthlyTrend: for (let i = 5; i >= 0; i--).
TREND_BACK == 5

\* ------------------------------------------------------------ JS numbers

RECURSIVE Gcd(_, _)
Gcd(a, b) == IF b = 0 THEN a ELSE Gcd(b, a % b)

Abs(x) == IF x < 0 THEN -x ELSE x

\* The number n/d (d > 0), in lowest terms.
Rat(n, d) ==
    LET g == Gcd(Abs(n), d)
    IN  IF n = 0 THEN [nan |-> FALSE, n |-> 0, d |-> 1]
        ELSE [nan |-> FALSE, n |-> n \div g, d |-> d \div g]

NaN == [nan |-> TRUE, n |-> 0, d |-> 1]
Num(c) == Rat(c, 1)
Zero == Num(0)

NAdd(a, b) ==
    IF a.nan \/ b.nan THEN NaN ELSE Rat(a.n * b.d + b.n * a.d, a.d * b.d)

NSub(a, b) ==
    IF a.nan \/ b.nan THEN NaN ELSE Rat(a.n * b.d - b.n * a.d, a.d * b.d)

\* a * k for an integer k (a month count).
NMulInt(a, k) == IF a.nan THEN NaN ELSE Rat(a.n * k, a.d)

\* a * p / 100 (salary * 0.17).
NPercent(a, p) == IF a.nan THEN NaN ELSE Rat(a.n * p, a.d * 100)

\* a / k for an integer k. k = 0 gives Infinity (or NaN for 0/0) and k < 0 a
\* sign change in JavaScript; the forecast divides only by the month count
\* of a record that passed the active-in-month filter.
NDivInt(a, k) ==
    IF a.nan \/ k = 0 THEN NaN
    ELSE IF k > 0 THEN Rat(a.n, a.d * k) ELSE Rat(-a.n, a.d * (-k))

\* Buggy variant: a >= 0.
NGtZeroOrZero(a) == ~a.nan /\ a.n >= 0

\* a > 0 in JavaScript: false for NaN.
NGtZero(a) == ~a.nan /\ a.n > 0

\* array.reduce((sum, x) => sum + x, 0) over a sequence of numbers.
RECURSIVE NSum(_)
NSum(s) == IF s = <<>> THEN Zero ELSE NAdd(NSum(SubSeq(s, 1, Len(s) - 1)), s[Len(s)])

\* ------------------------------------------------------- stored decimals

\* A decimal column holding `cents` hundredths.
Dec(cents) == [null |-> FALSE, text |-> "num", cents |-> cents]
\* A decimal column holding PostgreSQL's numeric 'NaN'.
DecNaN == [null |-> FALSE, text |-> "NaN", cents |-> 0]
\* A nullable column left unset.
Null == [null |-> TRUE, text |-> "", cents |-> 0]

\* parseFloat(column text).
parseFloat(s) == IF s.text = "num" THEN Num(s.cents) ELSE NaN

\* JavaScript truthiness of a nullable decimal column: null is falsy, every
\* decimal text ("0.00" included) is a non-empty string.
Truthy(s) == ~s.null

\* ----------------------------------------------------------------- dates

YearOf(d) == d \div 10000
MonthOf(d) == (d \div 100) % 100
DayOf(d) == d % 100
\* date.substring(0, 7), and `${year}-${padStart(month)}`.
YM(d) == d \div 100
MkDate(y, m, d) == y * 10000 + m * 100 + d

IsLeap(y) == (y % 4 = 0 /\ y % 100 # 0) \/ y % 400 = 0
DaysInMonth(y, m) ==
    IF m = 2 THEN (IF IsLeap(y) THEN 29 ELSE 28)
    ELSE IF m \in {4, 6, 9, 11} THEN 30 ELSE 31

PrevDay(d) ==
    IF DayOf(d) > 1 THEN d - 1
    ELSE IF MonthOf(d) > 1
         THEN MkDate(YearOf(d), MonthOf(d) - 1, DaysInMonth(YearOf(d), MonthOf(d) - 1))
         ELSE MkDate(YearOf(d) - 1, 12, 31)

NextDay(d) ==
    IF DayOf(d) < DaysInMonth(YearOf(d), MonthOf(d)) THEN d + 1
    ELSE IF MonthOf(d) < 12 THEN MkDate(YearOf(d), MonthOf(d) + 1, 1)
         ELSE MkDate(YearOf(d) + 1, 1, 1)

\* Months since year 0 of a YYYYMM key, and back: new Date(y, m + i, 1)
\* normalises a month outside 0..11 into the neighbouring years.
MonthIndex(ym) == (ym \div 100) * 12 + (ym % 100) - 1
YMOfIndex(i) == (i \div 12) * 100 + (i % 12) + 1
\* Buggy variant: the month number grows past 12 and the year stays.
AddMonthsNoCarry(ym, i) == ym + i
AddMonths(ym, i) == YMOfIndex(MonthIndex(ym) + i)
FirstOfMonth(ym) == ym * 100 + 1

\* new Date("YYYY-MM-DD") is midnight UTC of the written date; getFullYear()
\* and getMonth() read it in local time: west of UTC that is the evening of
\* the previous day.
LocalDateOfParsed(d, zone) == IF zone < 0 THEN PrevDay(d) ELSE d
LocalYMOfParsed(d, zone) == YM(LocalDateOfParsed(d, zone))

\* Instants, comparable across the two ways the code builds a Date:
\* new Date("YYYY-MM-DD") (midnight UTC) and new Date(y, m, 1) (midnight
\* local time, which east of UTC falls before midnight UTC of the same date
\* and west of UTC after it).
InstantOfParsed(d) == 2 * d
InstantOfLocal(d, zone) == 2 * d - zone

\* (end.getFullYear() - start.getFullYear()) * 12
\*   + (end.getMonth() - start.getMonth()) + 1 on two parsed date strings.
monthsSpanned(from, to, zone) ==
    LET f == LocalDateOfParsed(from, zone)
        t == LocalDateOfParsed(to, zone)
    IN  (YearOf(t) - YearOf(f)) * 12 + (MonthOf(t) - MonthOf(f)) + 1

\* ------------------------------------------------------------ array helpers

\* array.filter(test), array.map(f), array.slice(0, n).
Filter(s, Test(_)) == SelectSeq(s, Test)
Map(s, F(_)) == [i \in 1..Len(s) |-> F(s[i])]
Slice(s, n) == SubSeq(s, 1, IF Len(s) < n THEN Len(s) ELSE n)

\* The rows of a table (a set of rows with distinct ids) in the order of a
\* query with ORDER BY key: ties, which PostgreSQL leaves open, by id here.
OrderBy(S, Key(_), descending) ==
    CHOOSE s \in [1..Cardinality(S) -> S] :
        /\ \A i, j \in 1..Cardinality(S) : i # j => s[i] # s[j]
        /\ \A i, j \in 1..Cardinality(S) :
              i < j =>
                 \/ (IF descending THEN Key(s[i]) > Key(s[j]) ELSE Key(s[i]) < Key(s[j]))
                 \/ (Key(s[i]) = Key(s[j]) /\ s[i].id < s[j].id)

\* ------------------------------------------------------------------ payroll

\* Buggy variant: the levy is added for every worker type.
EmployerCostLevyForAll(e) ==
    LET salary == parseFloat(e.salary)
        levy == IF Truthy(e.foreignWorkerLevy) THEN parseFloat(e.foreignWorkerLevy) ELSE Zero
        cpf == IF e.workerType = "local" THEN NPercent(salary, CPF_RATE_PCT) ELSE Zero
    IN  NAdd(NAdd(salary, cpf), levy)

\* The reduce callback of the three handlers: salary, plus CPF for a local
\* worker, plus the levy (0 when unset) for any other worker type.
EmployerCost(e) ==
    LET salary == parseFloat(e.salary)
        levy == IF Truthy(e.foreignWorkerLevy) THEN parseFloat(e.foreignWorkerLevy) ELSE Zero
        cpf == IF e.workerType = "local" THEN NPercent(salary, CPF_RATE_PCT) ELSE Zero
    IN  NAdd(salary, IF e.workerType = "local" THEN cpf ELSE levy)

\* The client's helpers (pages/routes.tsx): salary * 0.17, and the total cost
\* of an employee from numbers already parsed.
calculateCPF(salary) == NPercent(salary, CPF_RATE_PCT)

calculateEmployeeCost(salary, workerType, levy) ==
    IF workerType = "local" THEN NAdd(salary, calculateCPF(salary)) ELSE NAdd(salary, levy)

\* Buggy variant: no status filter.
ActiveEmployeesUnfiltered(employees) == employees

\* employees.filter(e => e.status === "active")
ActiveEmployees(employees) == Filter(employees, LAMBDA e : e.status = "active")

\* Monthly employer cost of the active employees.
monthlyEmployeeCosts(employees) ==
    NSum(Map(ActiveEmployees(employees), EmployerCost))

\* Buggy variant: no route counts as subcontracted.
SubcontractedRoutesNone(routes) == <<>>

\* routes.filter(subcontracted && active && subcontractorCost)
SubcontractedRoutes(routes) ==
    Filter(routes, LAMBDA r : r.routeType = "subcontracted" /\ r.status = "active"
                                /\ Truthy(r.subcontractorCost))

Amounts(rows) == Map(rows, LAMBDA r : parseFloat(r.amount))

\* ------------------------------------------------------ GET /api/dashboard/stats

\* Buggy variant: the trend runs from the current month backwards.
TrendMonthNewestFirst(currentMonth, k) == AddMonths(currentMonth, 1 - k)

\* Buggy variant: the trend ends with the month before the current one.
TrendMonthBeforeCurrent(currentMonth, k) == AddMonths(currentMonth, k - 2 - TREND_BACK)

\* The month of the k-th trend entry (k from 1): the loop runs i from 5 down
\* to 0 and pushes the month i months before the current one.
TrendMonth(currentMonth, k) == AddMonths(currentMonth, k - 1 - TREND_BACK)

\* Buggy variant: the month's expenses without the payroll.
MonthTotalExpensesNoPayroll(monthlyExpenses, payroll) == monthlyExpenses

\* totalExpensesMonth: monthlyExpenses + monthlyEmployeeCosts.
MonthTotalExpenses(monthlyExpenses, payroll) == NAdd(monthlyExpenses, payroll)

\* The response body of the dashboard, from the local date `today` and the
\* four lists read.
DashboardBody(today, income, expenses, routes, employees) ==
    LET currentMonth == YM(today)
        yearStart == YearOf(today) * 100 + 1
        monthlyIncome ==
            NSum(Amounts(Filter(income, LAMBDA i : i.billingPeriod = currentMonth)))
        monthlyExpenses ==
            NSum(Amounts(Filter(expenses, LAMBDA e : YM(e.expenseDate) = currentMonth)))
        ytdIncome ==
            NSum(Amounts(Filter(income, LAMBDA i : i.billingPeriod >= yearStart
                                                     /\ i.billingPeriod <= currentMonth)))
        ytdExpenses ==
            NSum(Amounts(Filter(expenses,
                                LAMBDA e : e.expenseDate >= MkDate(YearOf(today), 1, 1))))
        payroll == monthlyEmployeeCosts(employees)
        trendEntry(k) ==
            LET month == TrendMonth(currentMonth, k)
            IN  [month |-> month % 100,
                 income |-> NSum(Amounts(Filter(income, LAMBDA i : i.billingPeriod = month))),
                 expenses |-> NAdd(NSum(Amounts(Filter(expenses,
                                       LAMBDA e : YM(e.expenseDate) = month))), payroll)]
    IN  [totalIncomeMonth |-> monthlyIncome,
         totalIncomeYTD |-> ytdIncome,
         totalExpensesMonth |-> MonthTotalExpenses(monthlyExpenses, payroll),
         totalExpensesYTD |-> ytdExpenses,
         netProfitMonth |-> NSub(NSub(monthlyIncome, monthlyExpenses), payroll),
         netProfitYTD |-> NSub(ytdIncome, ytdExpenses),
         activeRoutes |-> Len(Filter(routes, LAMBDA r : r.status = "active")),
         recentIncome |-> Slice(income, RECENT_LIMIT),
         recentExpenses |-> Slice(expenses, RECENT_LIMIT),
         monthlyTrend |-> [k \in 1..(TREND_BACK + 1) |-> trendEntry(k)]]

\* --------------------------------------------------------- GET /api/reports/pnl

\* Buggy variant: the raw expenses enter the total twice.
PnlTotalExpensesTwice(expenses, subcontractorCosts, employeeCosts, vehicleCosts) ==
    NAdd(NAdd(NAdd(NAdd(NSum(Amounts(expenses)), NSum(Amounts(expenses))),
                   subcontractorCosts), employeeCosts), vehicleCosts)

\* expenses.reduce(...) + subcontractorCosts + employeeCosts + vehicleCosts
PnlTotalExpenses(expenses, subcontractorCosts, employeeCosts, vehicleCosts) ==
    NAdd(NAdd(NAdd(NSum(Amounts(expenses)), subcontractorCosts), employeeCosts),
         vehicleCosts)

\* The response body of the P&L report for the range [from, to], from the
\* six lists read (income and expenses already cut to the range by storage).
PnlBody(from, to, zone, income, expenses, customers, routes, employees, categories) ==
    LET monthsInPeriod == monthsSpanned(from, to, zone)
        routeIncome == NSum(Amounts(Filter(income, LAMBDA i : i.incomeType = "route")))
        adhocIncome == NSum(Amounts(Filter(income, LAMBDA i : i.incomeType = "adhoc")))
        byCustomerAll ==
            Map(customers, LAMBDA c :
                [name |-> c.name,
                 amount |-> NSum(Amounts(Filter(income, LAMBDA i : i.customerId = c.id)))])
        incomeByCustomer == Filter(byCustomerAll, LAMBDA c : NGtZero(c.amount))
        byCategoryAll ==
            Map(categories, LAMBDA cat :
                [name |-> cat.name,
                 amount |-> NSum(Amounts(Filter(expenses, LAMBDA e : e.categoryId = cat.id)))])
        uncategorizedExpenses ==
            NSum(Amounts(Filter(expenses, LAMBDA e : e.categoryId = 0)))
        expensesByCategory ==
            Filter(byCategoryAll, LAMBDA c : NGtZero(c.amount))
              \o (IF NGtZero(uncategorizedExpenses)
                  THEN <<[name |-> "Uncategorized", amount |-> uncategorizedExpenses]>>
                  ELSE <<>>)
        subcontractorCosts ==
            NSum(Map(SubcontractedRoutes(routes),
                     LAMBDA r : NMulInt(parseFloat(r.subcontractorCost), monthsInPeriod)))
        employeeCosts ==
            NSum(Map(ActiveEmployees(employees),
                     LAMBDA e : NMulInt(EmployerCost(e), monthsInPeriod)))
        vehicleCosts == Zero
        totalExpenses ==
            PnlTotalExpenses(expenses, subcontractorCosts, employeeCosts, vehicleCosts)
    IN  [period |-> [from |-> from, to |-> to],
         income |-> [routeIncome |-> routeIncome,
                     adhocIncome |-> adhocIncome,
                     totalIncome |-> NAdd(routeIncome, adhocIncome),
                     byCustomer |-> incomeByCustomer],
         expenses |-> [byCategory |-> expensesByCategory,
                       subcontractorCosts |-> subcontractorCosts,
                       employeeCosts |-> employeeCosts,
                       vehicleCosts |-> vehicleCosts,
                       totalExpenses |-> totalExpenses],
         netProfit |-> NSub(NAdd(routeIncome, adhocIncome), totalExpenses)]

\* ---------------------------------------------------- GET /api/reports/cashflow

\* Buggy variant: only the start of the term is compared.
ActiveInFromStart(ym, startDate, endDate, zone) ==
    InstantOfLocal(FirstOfMonth(ym), zone) >= InstantOfParsed(startDate)

\* date >= start && date <= end, where date is local midnight of the first
\* day of the forecast month and start, end are parsed date strings.
ActiveIn(ym, startDate, endDate, zone) ==
    /\ InstantOfLocal(FirstOfMonth(ym), zone) >= InstantOfParsed(startDate)
    /\ InstantOfLocal(FirstOfMonth(ym), zone) <= InstantOfParsed(endDate)

\* The parking filter: an unset endDate stands for new Date(9999, 11, 31),
\* local midnight of that day.
ParkingActiveIn(ym, p, zone) ==
    /\ InstantOfLocal(FirstOfMonth(ym), zone) >= InstantOfParsed(p.startDate)
    /\ InstantOfLocal(FirstOfMonth(ym), zone) <=
          (IF p.endDate # 0 THEN InstantOfParsed(p.endDate)
           ELSE InstantOfLocal(MkDate(9999, 12, 31), zone))

\* Buggy variant: every recurring expense counts, whatever its frequency.
MonthlyRecurringAnyFrequency(e) == e.isRecurring

\* The filter of recurringExpenses.
MonthlyRecurring(e) == e.isRecurring /\ e.recurringFrequency = "monthly"

\* One pass of the month loop, without the running balance: the record of
\* the i-th forecast month (i from 0).
CashflowMonth(i, today, zone, routes, employees, installments, insurance, parking, expenses) ==
    LET monthKey == AddMonths(YM(today), i)
        routeIncome ==
            NSum(Map(Filter(routes, LAMBDA r : r.status = "active"),
                     LAMBDA r : parseFloat(r.monthlyRate)))
        vehicleInstallments ==
            NSum(Map(Filter(installments,
                            LAMBDA inst : ActiveIn(monthKey, inst.startDate, inst.endDate, zone)),
                     LAMBDA inst : parseFloat(inst.monthlyAmount)))
        vehicleInsurance ==
            NSum(Map(Filter(insurance,
                            LAMBDA ins : ActiveIn(monthKey, ins.startDate, ins.endDate, zone)),
                     LAMBDA ins : NDivInt(parseFloat(ins.premium),
                                          monthsSpanned(ins.startDate, ins.endDate, zone))))
        vehicleParking ==
            NSum(Map(Filter(parking, LAMBDA p : ParkingActiveIn(monthKey, p, zone)),
                     LAMBDA p : parseFloat(p.monthlyCost)))
        employeeCosts == monthlyEmployeeCosts(employees)
        subcontractorCosts ==
            NSum(Map(SubcontractedRoutes(routes), LAMBDA r : parseFloat(r.subcontractorCost)))
        recurringExpenses ==
            NSum(Amounts(Filter(expenses, MonthlyRecurring)))
        totalInflows == routeIncome
        totalOutflows ==
            NAdd(NAdd(NAdd(NAdd(NAdd(vehicleInstallments, vehicleInsurance), vehicleParking),
                           employeeCosts), subcontractorCosts), recurringExpenses)
    IN  [month |-> monthKey,
         inflows |-> totalInflows,
         outflows |-> totalOutflows,
         netFlow |-> NSub(totalInflows, totalOutflows),
         details |-> [routeIncome |-> routeIncome,
                      expectedPayments |-> Zero,
                      vehicleInstallments |-> vehicleInstallments,
                      vehicleInsurance |-> vehicleInsurance,
                      vehicleParking |-> vehicleParking,
                      employeeCosts |-> employeeCosts,
                      subcontractorCosts |-> subcontractorCosts,
                      recurringExpenses |-> recurringExpenses]]

\* Buggy variant: the balance is overwritten, not accumulated.
RunningBalanceLast(flows) ==
    [k \in 0..Len(flows) |-> IF k = 0 THEN Zero ELSE flows[k]]

\* let cumulativeBalance = 0; then cumulativeBalance += netFlow in every pass
\* of the loop: the value pushed with each month, and (at index 0) the start.
RunningBalance(flows) ==
    LET acc[k \in 0..Len(flows)] == IF k = 0 THEN Zero ELSE NAdd(acc[k - 1], flows[k])
    IN  acc

\* Buggy variant: the net cash flow is outflows minus inflows.
CashflowSummaryOutMinusIn(months, cumulativeBalance) ==
    LET totalInflows == NSum([k \in 1..Len(months) |-> months[k].inflows])
        totalOutflows == NSum([k \in 1..Len(months) |-> months[k].outflows])
    IN  [totalInflows |-> totalInflows,
         totalOutflows |-> totalOutflows,
         netCashFlow |-> NSub(totalOutflows, totalInflows),
         endingBalance |-> cumulativeBalance]

\* The summary of the forecast: the two reduce calls over months (from 0) and
\* the cumulativeBalance the loop ended with.
CashflowSummary(months, cumulativeBalance) ==
    LET totalInflows == NSum([k \in 1..Len(months) |-> months[k].inflows])
        totalOutflows == NSum([k \in 1..Len(months) |-> months[k].outflows])
    IN  [totalInflows |-> totalInflows,
         totalOutflows |-> totalOutflows,
         netCashFlow |-> NSub(totalInflows, totalOutflows),
         endingBalance |-> cumulativeBalance]

\* The response body of the forecast over periodMonths months.
CashflowBody(periodMonths, today, zone, routes, employees, installments, insurance, parking, expenses) ==
    LET n == IF periodMonths > 0 THEN periodMonths ELSE 0
        \* (<<>> \o f is the sequence f, built once)
        raw == <<>> \o [k \in 1..n |->
                          CashflowMonth(k - 1, today, zone, routes, employees, installments,
                                        insurance, parking, expenses)]
        balance == RunningBalance(<<>> \o [k \in 1..n |-> raw[k].netFlow])
        months == [k \in 1..n |->
                      [month |-> raw[k].month,
                       inflows |-> raw[k].inflows,
                       outflows |-> raw[k].outflows,
                       netFlow |-> raw[k].netFlow,
                       cumulativeBalance |-> balance[k],
                       details |-> raw[k].details]]
    IN  [months |-> months, summary |-> CashflowSummary(months, balance[n])]

\* -------------------------------------------------------------- repository

\* The tables the reports read (shared/schema.ts).
Tables == {"customers", "routes", "incomeRecords", "expenseCategories", "expenses",
           "vehicleInstallments", "vehicleInsurance", "vehicleParking", "employees"}

\* Tables with a PUT route (storage.update...) and with a DELETE route
\* (storage.delete...).
Updatable == {"customers", "routes", "incomeRecords", "expenses", "employees"}
Deletable == {"customers", "routes", "incomeRecords", "expenses", "employees"}

Employee(id, workerType, salary, levy, status) ==
    [id |-> id, workerType |-> workerType, salary |-> salary,
     foreignWorkerLevy |-> levy, status |-> status]

Route(id, routeType, monthlyRate, subcontractorCost, status) ==
    [id |-> id, routeType |-> routeType, monthlyRate |-> monthlyRate,
     subcontractorCost |-> subcontractorCost, status |-> status]

\* customerId 0 and categoryId 0 stand for NULL (identity columns start at 1).
IncomeRecord(id, customerId, amount, billingPeriod, incomeType) ==
    [id |-> id, customerId |-> customerId, amount |-> amount,
     billingPeriod |-> billingPeriod, incomeType |-> incomeType]

Expense(id, categoryId, amount, expenseDate, isRecurring, recurringFrequency) ==
    [id |-> id, categoryId |-> categoryId, amount |-> amount, expenseDate |-> expenseDate,
     isRecurring |-> isRecurring, recurringFrequency |-> recurringFrequency]

\* The rows a request body may create or an update may leave behind: per
\* table, a few rows; two rows with one id are the states of one row before
\* and after an update.
Catalog ==
    [customers |-> {[id |-> 1, name |-> "Acme"], [id |-> 2, name |-> "Beta"]},
     expenseCategories |-> {[id |-> 1, name |-> "Fuel"]},
     routes |->
        {Route(1, "owned", Dec(1000000), Dec(400000), "active"),
         Route(1, "subcontracted", Dec(1000000), Dec(400000), "inactive"),
         Route(2, "subcontracted", Dec(800000), Dec(500000), "active"),
         Route(2, "subcontracted", Dec(800000), Null, "active")},
     employees |->
        {Employee(1, "local", Dec(300000), Dec(45000), "active"),
         Employee(2, "foreign", Dec(220000), Dec(45000), "active"),
         Employee(3, "foreign", Dec(220000), Null, "active"),
         Employee(4, "local", DecNaN, Null, "active")},
     incomeRecords |->
        {IncomeRecord(1, 1, Dec(100000), 202412, "route"),
         IncomeRecord(2, 2, Dec(-50000), 202412, "adhoc")},
     expenses |->
        {Expense(1, 1, Dec(5000), 20241215, FALSE, ""),
         Expense(2, 0, Dec(5000), 20250120, TRUE, "monthly")},
     vehicleInstallments |-> {[id |-> 1, monthlyAmount |-> Dec(80000),
                               startDate |-> 20250101, endDate |-> 20250228]},
     vehicleInsurance |->
        {[id |-> 1, premium |-> Dec(240000), startDate |-> 20241201, endDate |-> 20251130],
         [id |-> 1, premium |-> Dec(240000), startDate |-> 20250115, endDate |-> 20251231],
         \* A term entered with its ends exchanged.
         [id |-> 2, premium |-> Dec(120000), startDate |-> 20250201, endDate |-> 20250101]},
     \* endDate 0 stands for NULL (vehicle_parking.end_date is nullable).
     vehicleParking |-> {[id |-> 1, monthlyCost |-> Dec(12000),
                          startDate |-> 20250101, endDate |-> 0]}]

\* The rows the DELETE requests of the behaviours name, per table.
DeleteIds ==
    [t \in Tables |-> IF t = "employees" THEN {1} ELSE {}]

\* The repository the behaviours start from.
SeedDb ==
    [customers |-> {[id |-> 1, name |-> "Acme"], [id |-> 2, name |-> "Beta"]},
     expenseCategories |-> {[id |-> 1, name |-> "Fuel"]},
     routes |-> {Route(1, "owned", Dec(1000000), Dec(400000), "active")},
     employees |-> {Employee(1, "local", Dec(300000), Dec(45000), "active"),
                    Employee(5, "foreign", Dec(250000), Dec(45000), "inactive")},
     \* customerId 0 stands for NULL (income_records.customer_id is nullable).
     incomeRecords |-> {IncomeRecord(1, 1, Dec(100000), 202412, "route"),
                        IncomeRecord(3, 0, Dec(50000), 202401, "adhoc")},
     expenses |-> {Expense(1, 1, Dec(5000), 20241215, FALSE, ""),
                   Expense(3, 1, Dec(7000), 20241105, TRUE, "quarterly")},
     vehicleInstallments |-> {},
     vehicleInsurance |-> {},
     vehicleParking |-> {}]

ById(r) == r.id

\* Buggy variant: the billing month is compared as its first day with the
\* days of the range.
InIncomePeriodByDay(r, from, to) ==
    FirstOfMonth(r.billingPeriod) >= from /\ FirstOfMonth(r.billingPeriod) <= to

\* getIncomeByPeriod's WHERE clause: billing_period between
\* from.substring(0, 7) and to.substring(0, 7).
InIncomePeriod(r, from, to) == r.billingPeriod >= YM(from) /\ r.billingPeriod <= YM(to)

\* What each storage method returns from the repository d. The range
\* queries compare billing_period with the first 7 characters of from and
\* to, and expense_date with from and to.
Query(method, d, from, to) ==
    CASE method = "getCustomers" -> OrderBy(d.customers, ById, FALSE)
      [] method = "getRoutes" -> OrderBy(d.routes, ById, FALSE)
      [] method = "getEmployees" -> OrderBy(d.employees, ById, FALSE)
      [] method = "getExpenseCategories" -> OrderBy(d.expenseCategories, ById, FALSE)
      [] method = "getIncomeRecords" ->
            OrderBy(d.incomeRecords, LAMBDA r : r.billingPeriod, TRUE)
      [] method = "getExpenses" -> OrderBy(d.expenses, LAMBDA r : r.expenseDate, TRUE)
      [] method = "getIncomeByPeriod" ->
            OrderBy({r \in d.incomeRecords : InIncomePeriod(r, from, to)}, ById, FALSE)
      [] method = "getExpensesByPeriod" ->
            OrderBy({r \in d.expenses : r.expenseDate >= from /\ r.expenseDate <= to},
                    ById, FALSE)
      [] method = "getAllVehicleInstallments" -> OrderBy(d.vehicleInstallments, ById, FALSE)
      [] method = "getAllVehicleInsurance" -> OrderBy(d.vehicleInsurance, ById, FALSE)
      [] method = "getAllVehicleParking" -> OrderBy(d.vehicleParking, ById, FALSE)

\* ------------------------------------------------- dashboard widgets (client)

\* The ids of the DEFAULT_WIDGETS literal, in its order.
WidgetIds ==
    <<"financial-kpis", "operational-stats", "income-expense-trend", "payment-status",
      "recent-transactions", "top-customers", "vehicle-utilization",
      "employee-breakdown", "quick-stats">>

WidgetIdSet == {WidgetIds[i] : i \in 1..Len(WidgetIds)}

\* DEFAULT_WIDGETS as the module creates it when the page loads: an array
\* (arr, the ids of its objects in array order) of nine objects, every one
\* visible, the order field of the i-th (from 0) being i. The array and its
\* objects are ordinary mutable values; no code writes the visible field of
\* one of these objects, so only the order fields are kept.
DefaultWidgets ==
    [arr |-> WidgetIds,
     order |-> [id \in WidgetIdSet |-> (CHOOSE i \in 1..Len(WidgetIds) : WidgetIds[i] = id) - 1]]

\* An element of the widgetConfig array: the object of DEFAULT_WIDGETS with
\* that id itself (its order is read from DEFAULT_WIDGETS), or an object of
\* its own, made by a spread copy or by JSON.parse.
SharedWidget(id) == [id |-> id, own |-> FALSE, visible |-> TRUE, order |-> 0]
OwnWidget(id, visible, order) == [id |-> id, own |-> TRUE, visible |-> visible, order |-> order]

\* The widgetConfig state is the DEFAULT_WIDGETS array itself (alias) or an
\* array of its own; its elements.
WidgetElements(cfg, dw) ==
    IF cfg.alias THEN [i \in 1..Len(dw.arr) |-> SharedWidget(dw.arr[i])] ELSE cfg.arr

WidgetOrder(w, dw) == IF w.own THEN w.order ELSE dw.order[w.id]

\* Array.prototype.sort((a, b) => a.order - b.order): a stable sort.
SortByOrder(s, dw) ==
    LET n == Len(s)
        before(j, i) ==
            \/ WidgetOrder(s[j], dw) < WidgetOrder(s[i], dw)
            \/ (WidgetOrder(s[j], dw) = WidgetOrder(s[i], dw) /\ j < i)
        rank(i) == Cardinality({j \in 1..n : before(j, i)}) + 1
    IN  [p \in 1..n |-> s[CHOOSE i \in 1..n : rank(i) = p]]

\* loadWidgetConfig with a saved configuration: JSON.parse of what the effect
\* saved last, that is new objects with the values of the current ones.
loadWidgetConfig(cfg, dw) ==
    [alias |-> FALSE,
     arr |-> Map(WidgetElements(cfg, dw),
                 LAMBDA w : OwnWidget(w.id, w.visible, WidgetOrder(w, dw)))]

toggleWidget(id, cfg, dw) ==
    [config |->
        [alias |-> FALSE,
         arr |-> Map(WidgetElements(cfg, dw),
                     LAMBDA w : IF w.id = id
                                THEN OwnWidget(w.id, ~w.visible, WidgetOrder(w, dw))
                                ELSE w)],
     defaults |-> dw]

\* moveWidget: a shallow copy of the array, the dragged element moved to the
\* index of the hovered one, then order = index written into every element
\* object, the objects of DEFAULT_WIDGETS among them.
moveWidget(dragId, hoverId, cfg, dw) ==
    LET widgets == WidgetElements(cfg, dw)
        n == Len(widgets)
        dragIndex == CHOOSE i \in 1..n : widgets[i].id = dragId
        hoverIndex == CHOOSE i \in 1..n : widgets[i].id = hoverId
        rest == SubSeq(widgets, 1, dragIndex - 1) \o SubSeq(widgets, dragIndex + 1, n)
        newConfig ==
            SubSeq(rest, 1, hoverIndex - 1) \o <<widgets[dragIndex]>>
               \o SubSeq(rest, hoverIndex, n - 1)
    IN  IF dragIndex = hoverIndex THEN [config |-> cfg, defaults |-> dw]
        ELSE [config |->
                 [alias |-> FALSE,
                  arr |-> [i \in 1..n |->
                             IF newConfig[i].own THEN [newConfig[i] EXCEPT !.order = i - 1]
                             ELSE newConfig[i]]],
              defaults |->
                 [dw EXCEPT !.order =
                     [id \in WidgetIdSet |->
                         IF \E i \in 1..n : newConfig[i] = SharedWidget(id)
                         THEN (CHOOSE i \in 1..n : newConfig[i] = SharedWidget(id)) - 1
                         ELSE dw.order[id]]]]

\* resetWidgets: the state becomes the DEFAULT_WIDGETS array itself.
resetWidgets(cfg, dw) == [config |-> [alias |-> TRUE, arr |-> <<>>], defaults |-> dw]

\* The render that follows a state change: the settings list sorts the
\* widgetConfig array in place.
RenderWidgets(r) ==
    IF r.config.alias
    THEN [config |-> r.config,
          defaults |-> [r.defaults EXCEPT
                           !.arr = Map(SortByOrder(WidgetElements(r.config, r.defaults),
                                                   r.defaults),
                                       LAMBDA w : w.id)]]
    ELSE [config |-> [r.config EXCEPT !.arr = SortByOrder(r.config.arr, r.defaults)],
          defaults |-> r.defaults]

\* visibleWidgets: the ids of the widgets the dashboard shows, in order.
visibleWidgets(cfg, dw) ==
    Map(SortByOrder(Filter(WidgetElements(cfg, dw), LAMBDA w : w.visible), dw),
        LAMBDA w : w.id)

\* ------------------------------------------------------------------- state

VARIABLES
    tz,      \* sign of the server's UTC offset: -1 west, 0 UTC, 1 east
    now,     \* the current local date
    ticks,   \* clock ticks so far
    db,      \* the repository: table name -> set of rows
    writes,  \* create/update/delete operations so far
    req,     \* the report request in flight, or Idle
    resp,    \* the response sent by the last step, or NoResp when it sent none
    DEFAULT_WIDGETS, \* the client's module-level array and the order fields of its objects
    widgetConfig,    \* the client's widgetConfig state
    op,              \* the widget operation of the last step, or "none"
    ops,             \* toggleWidget and moveWidget operations so far
    seen             \* history: the repository states since the raced request arrived

serverVars == <<tz, now, ticks, db, writes, req, resp>>
widgetVars == <<DEFAULT_WIDGETS, widgetConfig, op, ops>>
vars == <<tz, now, ticks, db, writes, req, resp, DEFAULT_WIDGETS, widgetConfig, op, ops, seen>>

\* The date the clock starts at.
StartDate == MkDate(2024, 12, 31)

Kinds == {"dashboard", "pnl", "cashflow"}

\* A handler that reads the employees a second time at the end of its reads.
ReadPlanEmployeesTwice(kind) ==
    CASE kind = "dashboard" ->
            <<"getIncomeRecords", "getExpenses", "getRoutes", "getEmployees",
              "getEmployees">>
      [] kind = "pnl" ->
            <<"getIncomeByPeriod", "getExpensesByPeriod", "getCustomers", "getRoutes",
              "getEmployees", "getExpenseCategories", "getEmployees">>
      [] kind = "cashflow" ->
            <<"getRoutes", "getEmployees", "getAllVehicleInstallments",
              "getAllVehicleInsurance", "getAllVehicleParking", "getExpenses",
              "getEmployees">>

\* The storage reads of each handler, in the order of its awaits.
ReadPlan(kind) ==
    CASE kind = "dashboard" ->
            <<"getIncomeRecords", "getExpenses", "getRoutes", "getEmployees">>
      [] kind = "pnl" ->
            <<"getIncomeByPeriod", "getExpensesByPeriod", "getCustomers", "getRoutes",
              "getEmployees", "getExpenseCategories">>
      [] kind = "cashflow" ->
            <<"getRoutes", "getEmployees", "getAllVehicleInstallments",
              "getAllVehicleInsurance", "getAllVehicleParking", "getExpenses">>

\* Query strings of the P&L requests: from and to, each absent (<<>>) or a
\* date.
PnlQueries ==
    {[from |-> <<>>, to |-> <<>>],
     [from |-> <<20240101>>, to |-> <<20241231>>],
     [from |-> <<20240115>>, to |-> <<20240301>>],
     [from |-> <<20241215>>, to |-> <<20250131>>],
     [from |-> <<20241231>>, to |-> <<20240101>>]}

\* Query strings of the forecast requests: period absent (<<>>) or a number.
CashflowQueries == {[period |-> p] : p \in {<<>>, <<-1>>, <<0>>, <<3>>}}

Queries(kind) ==
    CASE kind = "dashboard" -> {[none |-> TRUE]}
      [] kind = "pnl" -> PnlQueries
      [] kind = "cashflow" -> CashflowQueries

\* new Date().toISOString().split("T")[0]: the UTC date while the local date
\* is `today`; off UTC it is the same or the neighbouring day, by the hour.
UtcDates(today, zone) ==
    IF zone = 0 THEN {today}
    ELSE IF zone > 0 THEN {today, PrevDay(today)} ELSE {today, NextDay(today)}

\* Buggy variant: the range always starts with the current year.
PnlFromAlwaysDefault(q, today) == MkDate(YearOf(today), 1, 1)

\* req.query.from || `${new Date().getFullYear()}-01-01`
PnlFrom(q, today) == IF q.from # <<>> THEN q.from[1] ELSE MkDate(YearOf(today), 1, 1)

\* req.query.to || new Date().toISOString().split("T")[0]
PnlTo(q, utcToday) == IF q.to # <<>> THEN q.to[1] ELSE utcToday

\* parseInt(req.query.period) || 6: NaN (no number) and 0 are falsy.
ParsePeriod(q) ==
    IF q.period = <<>> \/ q.period[1] = 0 THEN DEFAULT_PERIOD ELSE q.period[1]

Idle ==
    [kind |-> "idle", query |-> [none |-> TRUE], from |-> 0, to |-> 0, today |-> 0,
     got |-> <<>>, reads |-> <<>>, dirty |-> FALSE]

NoResp ==
    [kind |-> "none", status |-> 0, body |-> [none |-> TRUE], query |-> [none |-> TRUE],
     from |-> 0, to |-> 0, today |-> 0, got |-> <<>>, reads |-> <<>>, dirty |-> FALSE]

\* The body each handler sends once all its reads are in.
Body(r, got, today, zone) ==
    CASE r.kind = "dashboard" -> DashboardBody(r.today, got[1], got[2], got[3], got[4])
      [] r.kind = "pnl" ->
            PnlBody(r.from, r.to, zone, got[1], got[2], got[3], got[4], got[5], got[6])
      [] r.kind = "cashflow" ->
            CashflowBody(ParsePeriod(r.query), today, zone,
                         got[1], got[2], got[3], got[4], got[5], got[6])

\* The catch block of each handler.
ErrorBody(kind) ==
    CASE kind = "dashboard" -> [error |-> "Failed to fetch dashboard stats"]
      [] kind = "pnl" -> [error |-> "Failed to generate P&L report"]
      [] kind = "cashflow" -> [error |-> "Failed to generate cash flow forecast"]

\* Buggy variant: a rejected read is swallowed and the handler goes on.
AfterReadSwallow(k, n, ok) == IF k = n THEN "respond" ELSE "await"

\* Where the handler goes after its k-th read of n: a rejected await throws
\* into the catch block; the last read is followed by the computation and
\* res.json; any other by the next await.
AfterRead(k, n, ok) ==
    IF ~ok THEN "catch" ELSE IF k = n THEN "respond" ELSE "await"

\* ----------------------------------------------------------------- actions

Init ==
    /\ tz \in {-1, 0, 1}
    /\ now = StartDate
    /\ ticks = 0
    /\ db = SeedDb
    /\ writes = 0
    /\ req = Idle
    /\ resp = NoResp
    \* The dashboard page as first loaded, nothing saved: useState(loadWidgetConfig).
    /\ DEFAULT_WIDGETS = DefaultWidgets
    /\ widgetConfig = [alias |-> TRUE, arr |-> <<>>]
    /\ op = "none"
    /\ ops = 0
    /\ seen = {}

\* A day passes.
Tick ==
    /\ ticks < MaxTicks
    /\ now' = NextDay(now)
    /\ ticks' = ticks + 1
    /\ resp' = NoResp
    /\ UNCHANGED <<tz, db, writes, req>>
    /\ UNCHANGED widgetVars

\* A write reaches the repository while a report request may be in flight:
\* what that request reads no longer comes from one repository state (dirty
\* is bookkeeping of the model, not data of the program).
Written(d) ==
    /\ db' = d
    /\ writes' = writes + 1
    /\ req' = IF req.kind = "idle" THEN req ELSE [req EXCEPT !.dirty = TRUE]
    /\ resp' = NoResp
    /\ UNCHANGED <<tz, now, ticks>>
    /\ UNCHANGED widgetVars

\* The foreign keys of shared/schema.ts among the columns modelled:
\* income_records.customer_id and expenses.category_id (0 stands for NULL).
ForeignKeysHold(d) ==
    /\ \A i \in d.incomeRecords :
          i.customerId # 0 => \E c \in d.customers : c.id = i.customerId
    /\ \A e \in d.expenses :
          e.categoryId # 0 => \E c \in d.expenseCategories : c.id = e.categoryId

\* POST /api/<table>: storage.create...(row).
Create(t, row) ==
    /\ \A r \in db[t] : r.id # row.id
    /\ ForeignKeysHold([db EXCEPT ![t] = @ \cup {row}])
    /\ Written([db EXCEPT ![t] = @ \cup {row}])

\* PUT /api/<table>/:id: storage.update...(id, fields).
Update(t, row) ==
    /\ t \in Updatable
    /\ \E old \in db[t] :
          /\ old.id = row.id
          /\ old # row
          /\ Written([db EXCEPT ![t] = (@ \ {old}) \cup {row}])

\* DELETE /api/<table>/:id: storage.delete...(id).
Delete(t, id) ==
    /\ t \in Deletable
    /\ \E old \in db[t] :
          /\ old.id = id
          /\ ForeignKeysHold([db EXCEPT ![t] = @ \ {old}])
          /\ Written([db EXCEPT ![t] = @ \ {old}])

\* A report request arrives: the handler runs up to its first await. The
\* dashboard reads the clock here; the P&L fills in the missing ends of its
\* range from the clock.
Start(kind, q, utcToday) ==
    /\ req.kind = "idle"
    /\ req' = [kind |-> kind, query |-> q,
               from |-> IF kind = "pnl" THEN PnlFrom(q, now) ELSE 0,
               to |-> IF kind = "pnl" THEN PnlTo(q, utcToday) ELSE 0,
               today |-> IF kind = "dashboard" THEN now ELSE 0,
               got |-> <<>>, reads |-> <<>>, dirty |-> FALSE]
    /\ resp' = NoResp
    /\ UNCHANGED <<tz, now, ticks, db, writes>>
    /\ UNCHANGED widgetVars

\* The pending read of the request in flight settles (ok: it resolves with
\* the rows the repository holds now; otherwise it rejects), and the handler
\* runs on to its next await or to its response. The forecast reads the
\* clock after its last read.
Read(ok) ==
    /\ req.kind # "idle"
    /\ LET plan == ReadPlan(req.kind)
           k == Len(req.reads) + 1
           rows == IF ok THEN Query(plan[k], db, req.from, req.to) ELSE <<>>
           got == Append(req.got, rows)
           reads == Append(req.reads, [method |-> plan[k], ok |-> ok])
           today == IF req.kind = "cashflow" THEN now ELSE req.today
           go == AfterRead(k, Len(plan), ok)
       IN  CASE go = "await" ->
                  /\ req' = [req EXCEPT !.got = got, !.reads = reads]
                  /\ resp' = NoResp
             [] go = "respond" ->
                  /\ req' = Idle
                  /\ resp' = [kind |-> req.kind, status |-> 200,
                              body |-> Body(req, got, today, tz),
                              query |-> req.query, from |-> req.from, to |-> req.to,
                              today |-> today, got |-> got, reads |-> reads,
                              dirty |-> req.dirty]
             [] go = "catch" ->
                  /\ req' = Idle
                  /\ resp' = [kind |-> req.kind, status |-> 500,
                              body |-> ErrorBody(req.kind),
                              query |-> req.query, from |-> req.from, to |-> req.to,
                              today |-> today, got |-> got, reads |-> reads,
                              dirty |-> req.dirty]
    /\ UNCHANGED <<tz, now, ticks, db, writes>>
    /\ UNCHANGED widgetVars

\* The history variable seen is kept only in the race of a P&L request with
\* writes, below.
Next ==
    \/ Tick /\ UNCHANGED seen
    \/ \E t \in Tables : \E row \in Catalog[t] :
          writes < MaxWrites /\ Create(t, row) /\ UNCHANGED seen
    \/ \E t \in Tables : \E row \in Catalog[t] :
          writes < MaxWrites /\ Update(t, row) /\ UNCHANGED seen
    \/ \E t \in Tables : \E id \in DeleteIds[t] :
          writes < MaxWrites /\ Delete(t, id) /\ UNCHANGED seen
    \/ \E kind \in Kinds : \E q \in Queries(kind) :
          \E u \in (IF kind = "pnl" /\ q.to = <<>> THEN UtcDates(now, tz) ELSE {now}) :
             Start(kind, q, u) /\ UNCHANGED seen
    \/ \E ok \in BOOLEAN : Read(ok) /\ UNCHANGED seen

Spec == Init /\ [][Next]_vars

\* ------------------------------------------ a P&L request racing with writes

\* The P&L request of the race: the year 2024.
RaceQuery == [from |-> <<20240101>>, to |-> <<20241231>>]

\* One P&L request at a time, while up to MaxRaceWrites create, update and
\* delete requests are served between its awaits; seen records the
\* repository states from the arrival of the request on.
RaceNext ==
    \/ \E t \in Tables : \E row \in Catalog[t] :
          writes < MaxRaceWrites /\ Create(t, row) /\ seen' = seen \cup {db'}
    \/ \E t \in Tables : \E row \in Catalog[t] :
          writes < MaxRaceWrites /\ Update(t, row) /\ seen' = seen \cup {db'}
    \/ \E t \in Tables : \E id \in DeleteIds[t] :
          writes < MaxRaceWrites /\ Delete(t, id) /\ seen' = seen \cup {db'}
    \/ Start("pnl", RaceQuery, now) /\ seen' = {db}
    \/ \E ok \in BOOLEAN : Read(ok) /\ UNCHANGED seen

RaceSpec == Init /\ [][RaceNext]_vars

\* ----------------------------------------------- actions of the widget dialog

\* The ids the user toggles, and the ones they drag and drop onto.
ToggleIds == {"financial-kpis", "quick-stats"}
DragIds == {"financial-kpis", "operational-stats", "quick-stats"}

\* A state change of the dashboard component and the render that follows.
SetWidgets(name, r) ==
    /\ widgetConfig' = RenderWidgets(r).config
    /\ DEFAULT_WIDGETS' = RenderWidgets(r).defaults
    /\ op' = name
    /\ UNCHANGED serverVars
    /\ UNCHANGED seen

\* The switch of a widget in the settings dialog.
ToggleWidget(id) ==
    /\ ops < MaxOps
    /\ ops' = ops + 1
    /\ SetWidgets("toggleWidget", toggleWidget(id, widgetConfig, DEFAULT_WIDGETS))

\* onDrop in the settings dialog: a widget dropped onto another one.
MoveWidget(dragId, hoverId) ==
    /\ ops < MaxOps
    /\ dragId # hoverId
    /\ ops' = ops + 1
    /\ SetWidgets("moveWidget", moveWidget(dragId, hoverId, widgetConfig, DEFAULT_WIDGETS))

\* The Reset to Default button.
ResetWidgets ==
    /\ ops' = ops
    /\ SetWidgets("resetWidgets", resetWidgets(widgetConfig, DEFAULT_WIDGETS))

\* The page is loaded again: the module creates DEFAULT_WIDGETS anew and the
\* component starts from the configuration its effect saved last.
ReloadPage ==
    /\ ops' = ops
    /\ SetWidgets("load", [config |-> loadWidgetConfig(widgetConfig, DEFAULT_WIDGETS),
                           defaults |-> DefaultWidgets])

WidgetNext ==
    \/ \E id \in ToggleIds : ToggleWidget(id)
    \/ \E dragId \in DragIds : \E hoverId \in DragIds : MoveWidget(dragId, hoverId)
    \/ ResetWidgets
    \/ ReloadPage

WidgetSpec == Init /\ [][WidgetNext]_vars

\* ---------------------------------------------------------------- properties

\* Helpers of the properties below.
Sent(kind) == resp.kind = kind /\ resp.status = 200
Range(seq) == {seq[i] : i \in 1..Len(seq)}
NoRepeats(seq) == \A i, j \in 1..Len(seq) : i # j => seq[i] # seq[j]

\* The sum of the amounts of a set of rows.
RECURSIVE AmountOfSet(_)
AmountOfSet(S) ==
    IF S = {} THEN Zero
    ELSE LET x == CHOOSE y \in S : TRUE
         IN  NAdd(parseFloat(x.amount), AmountOfSet(S \ {x}))

\* C1: every P&L report for a range with from <= to has netProfit =
\* income.totalIncome - expenses.totalExpenses, and expenses.totalExpenses =
\* (the amounts of the expense entries the range matches, each counted once)
\* + subcontractorCosts + employeeCosts + vehicleCosts, with vehicleCosts = 0.
C1_PnlTotals ==
    (Sent("pnl") /\ resp.from <= resp.to) =>
        LET b == resp.body
            matched == resp.got[2]
        IN  /\ b.netProfit = NSub(b.income.totalIncome, b.expenses.totalExpenses)
            /\ b.expenses.vehicleCosts = Zero
            /\ NoRepeats(matched)
            /\ \A e \in Range(matched) :
                  e.expenseDate >= resp.from /\ e.expenseDate <= resp.to
            /\ ~resp.dirty =>
                  Range(matched) = {e \in db.expenses : e.expenseDate >= resp.from
                                                        /\ e.expenseDate <= resp.to}
            /\ b.expenses.totalExpenses =
                  NAdd(NAdd(NAdd(AmountOfSet(Range(matched)), b.expenses.subcontractorCosts),
                            b.expenses.employeeCosts), b.expenses.vehicleCosts)

\* A P&L report over a matched expense, a subcontracted route and payroll.
C1_Witness ==
    /\ Sent("pnl")
    /\ resp.from <= resp.to
    /\ resp.got[2] # <<>>
    /\ NGtZero(resp.body.expenses.subcontractorCosts)
    /\ NGtZero(resp.body.expenses.employeeCosts)

\* C2: in every forecast, netFlow(k) = inflows(k) - outflows(k) and
\* cumulativeBalance(k) = netFlow(0) + ... + netFlow(k) for every month k, and
\* summary.endingBalance is the cumulativeBalance of the last month.
C2_CashflowBalance ==
    Sent("cashflow") =>
        LET m == resp.body.months
        IN  /\ \A k \in 1..Len(m) :
                  /\ m[k].netFlow = NSub(m[k].inflows, m[k].outflows)
                  /\ m[k].cumulativeBalance = NSum([j \in 1..k |-> m[j].netFlow])
            /\ Len(m) > 0 => resp.body.summary.endingBalance = m[Len(m)].cumulativeBalance

\* A forecast of three months whose flows are not zero.
C2_Witness ==
    /\ Sent("cashflow")
    /\ Len(resp.body.months) = 3
    /\ NGtZero(resp.body.months[1].netFlow)
    /\ resp.body.months[3].cumulativeBalance # resp.body.months[1].cumulativeBalance

\* C3: the P&L report is a function of (from, to, repository): a request
\* that gives both from and to, served from an unchanged repository, returns
\* the report of that range over that repository, whatever the clock showed
\* when it was served.
C3_PnlPure ==
    (Sent("pnl") /\ resp.query.from # <<>> /\ resp.query.to # <<>> /\ ~resp.dirty) =>
        LET from == resp.query.from[1]
            to == resp.query.to[1]
        IN  resp.body =
               PnlBody(from, to, tz,
                       Query("getIncomeByPeriod", db, from, to),
                       Query("getExpensesByPeriod", db, from, to),
                       Query("getCustomers", db, from, to),
                       Query("getRoutes", db, from, to),
                       Query("getEmployees", db, from, to),
                       Query("getExpenseCategories", db, from, to))

\* A P&L report with an explicit range, served after the clock has moved on.
C3_Witness ==
    /\ Sent("pnl")
    /\ resp.query.from # <<>> /\ resp.query.to # <<>>
    /\ ~resp.dirty
    /\ now # StartDate
    /\ NGtZero(resp.body.income.totalIncome)

\* The entity set each storage method reads.
EntityOf(method) ==
    CASE method \in {"getIncomeRecords", "getIncomeByPeriod"} -> "incomeRecords"
      [] method \in {"getExpenses", "getExpensesByPeriod"} -> "expenses"
      [] method = "getCustomers" -> "customers"
      [] method = "getRoutes" -> "routes"
      [] method = "getEmployees" -> "employees"
      [] method = "getExpenseCategories" -> "expenseCategories"
      [] method = "getAllVehicleInstallments" -> "vehicleInstallments"
      [] method = "getAllVehicleInsurance" -> "vehicleInsurance"
      [] method = "getAllVehicleParking" -> "vehicleParking"

\* The entity sets each report uses.
Uses(kind) ==
    CASE kind = "dashboard" -> {"incomeRecords", "expenses", "routes", "employees"}
      [] kind = "pnl" -> {"incomeRecords", "expenses", "customers", "routes", "employees",
                          "expenseCategories"}
      [] kind = "cashflow" -> {"routes", "employees", "vehicleInstallments",
                               "vehicleInsurance", "vehicleParking", "expenses"}

\* The fields of a report body, per operation.
ReportFields(kind) ==
    CASE kind = "dashboard" ->
            {"totalIncomeMonth", "totalIncomeYTD", "totalExpensesMonth", "totalExpensesYTD",
             "netProfitMonth", "netProfitYTD", "activeRoutes", "recentIncome",
             "recentExpenses", "monthlyTrend"}
      [] kind = "pnl" -> {"period", "income", "expenses", "netProfit"}
      [] kind = "cashflow" -> {"months", "summary"}

ReadsOf(r) == [i \in 1..Len(r.reads) |-> EntityOf(r.reads[i].method)]
FailedReads(r) == {i \in 1..Len(r.reads) : ~r.reads[i].ok}

\* C4: in each of the three report operations, a read that fails ends the
\* request: no later read is issued, the failed read is not issued again, and
\* the response is an error that holds no report field; a report body is sent
\* only when every read of the request succeeded.
C4_FailedReadAborts ==
    /\ FailedReads(req) = {}
    /\ NoRepeats(ReadsOf(req))
    /\ resp.kind # "none" =>
          /\ FailedReads(resp) \subseteq {Len(resp.reads)}
          /\ NoRepeats(ReadsOf(resp))
          /\ resp.status = 500 <=> FailedReads(resp) # {}
          /\ resp.status = 500 =>
                /\ DOMAIN resp.body = {"error"}
                /\ DOMAIN resp.body \cap ReportFields(resp.kind) = {}
          /\ resp.status = 200 =>
                /\ DOMAIN resp.body = ReportFields(resp.kind)
                /\ Range(ReadsOf(resp)) = Uses(resp.kind)
          /\ resp.status \in {200, 500}

\* A request whose third read failed after two that succeeded.
C4_Witness ==
    /\ resp.status = 500
    /\ Len(resp.reads) = 3
    /\ resp.reads[1].ok /\ resp.reads[2].ok /\ ~resp.reads[3].ok

\* C5: the report operations are read-only, and each request reads each
\* entity set it uses exactly once: a step of a report request (its arrival,
\* a read, its response) leaves every entity set of the repository as it
\* was, and a request that was answered with a report has read exactly the
\* entity sets its operation uses, each once (a failed one: each at most
\* once, and none that its operation does not use).
C5_ReadOnly ==
    [][/\ (req'.kind # req.kind \/ req'.reads # req.reads \/ resp' # NoResp) => db' = db
       /\ resp'.kind # "none" =>
             /\ NoRepeats(ReadsOf(resp'))
             /\ Range(ReadsOf(resp')) \subseteq Uses(resp'.kind)
             /\ resp'.status = 200 =>
                   /\ Range(ReadsOf(resp')) = Uses(resp'.kind)
                   /\ Len(resp'.reads) = Cardinality(Uses(resp'.kind))]_vars

\* A dashboard answered after a write to the repository, all four entity
\* sets read.
C5_Witness ==
    /\ Sent("dashboard")
    /\ Len(resp.reads) = 4
    /\ writes > 0
    /\ db # SeedDb

\* C6: a P&L request whose to date is earlier than its from date never
\* returns a report.
C6_ReversedRangeRejected ==
    (resp.kind = "pnl" /\ resp.query.from # <<>> /\ resp.query.to # <<>>
        /\ resp.query.to[1] < resp.query.from[1]) => resp.status # 200

\* C7: a forecast request with a period of 0 or less never returns a
\* forecast.
C7_NonPositivePeriodRejected ==
    (resp.kind = "cashflow" /\ resp.query.period # <<>> /\ resp.query.period[1] <= 0)
        => resp.status # 200

\* The stored money fields of the rows of a read.
MoneyFields(method) ==
    CASE EntityOf(method) \in {"incomeRecords", "expenses"} -> {"amount"}
      [] EntityOf(method) = "routes" -> {"monthlyRate", "subcontractorCost"}
      [] EntityOf(method) = "employees" -> {"salary", "foreignWorkerLevy"}
      [] EntityOf(method) = "vehicleInstallments" -> {"monthlyAmount"}
      [] EntityOf(method) = "vehicleInsurance" -> {"premium"}
      [] EntityOf(method) = "vehicleParking" -> {"monthlyCost"}
      [] OTHER -> {}

\* Some row the request read holds a money field that is present and not a
\* number.
ReadInvalidMoney(r) ==
    \E i \in 1..Len(r.got) : \E row \in Range(r.got[i]) :
        \E f \in MoneyFields(r.reads[i].method) : ~row[f].null /\ row[f].text # "num"

\* C8: a report request that read a money field which is present but not a
\* valid number fails with an error; it returns no result.
C8_InvalidMoneyRejected ==
    (resp.kind # "none" /\ ReadInvalidMoney(resp)) => resp.status # 200

\* The employees a request read: the position of getEmployees in its reads.
EmployeesRead(r) ==
    r.got[CASE r.kind = "dashboard" -> 4 [] r.kind = "pnl" -> 5 [] r.kind = "cashflow" -> 2]

IsActive(e) == e.status = "active"

\* The monthly employer cost the rule gives, in cents: salary * 1.17 for a
\* local worker, salary + levy (0 when unset) for a foreign one.
RuleCost(e) ==
    IF e.workerType = "local" THEN Rat(e.salary.cents * 117, 100)
    ELSE Rat(e.salary.cents + (IF e.foreignWorkerLevy.null THEN 0
                               ELSE e.foreignWorkerLevy.cents), 1)

RECURSIVE RuleCostOf(_)
RuleCostOf(emps) ==
    IF emps = <<>> THEN Zero ELSE NAdd(RuleCost(Head(emps)), RuleCostOf(Tail(emps)))

\* C9: the monthly employer cost of an employee is salary + 17% of salary
\* for a local worker, whatever levy is stored, and salary + levy (0 when
\* unset, no CPF) for a foreign one; local 3000 costs 3510 and foreign 2200
\* with levy 450 costs 2650. Every payroll figure of every report is the sum
\* of these costs over the active employees read (times the months of the
\* range in the P&L), and the client's helper gives the same cost.
C9_EmployerCost ==
    (resp.kind # "none" /\ resp.status = 200
        /\ \A e \in Range(EmployeesRead(resp)) : e.salary.text = "num") =>
        LET active == SelectSeq(EmployeesRead(resp), IsActive)
            payroll == RuleCostOf(active)
            b == resp.body
        IN  /\ \A e \in Range(active) :
                  /\ EmployerCost(e) = RuleCost(e)
                  /\ calculateEmployeeCost(
                        parseFloat(e.salary), e.workerType,
                        IF Truthy(e.foreignWorkerLevy) THEN parseFloat(e.foreignWorkerLevy)
                        ELSE Zero) = RuleCost(e)
                  /\ (e.workerType = "local" /\ e.salary = Dec(300000)) =>
                        EmployerCost(e) = Num(351000)
                  /\ (e.workerType = "foreign" /\ e.salary = Dec(220000)
                         /\ e.foreignWorkerLevy = Dec(45000)) =>
                        EmployerCost(e) = Num(265000)
                  /\ (e.workerType = "foreign" /\ e.foreignWorkerLevy = Null) =>
                        EmployerCost(e) = parseFloat(e.salary)
            /\ resp.kind = "cashflow" =>
                  \A k \in 1..Len(b.months) : b.months[k].details.employeeCosts = payroll
            /\ resp.kind = "pnl" =>
                  b.expenses.employeeCosts =
                     NMulInt(payroll, monthsSpanned(resp.from, resp.to, tz))
            /\ resp.kind = "dashboard" =>
                  NSub(b.totalExpensesMonth, payroll) =
                     NSum(Amounts(Filter(resp.got[2],
                                         LAMBDA x : YM(x.expenseDate) = YM(resp.today))))

\* A forecast over an active local worker with a stored levy and an active
\* foreign worker with a levy.
C9_Witness ==
    /\ Sent("cashflow")
    /\ Len(resp.body.months) = 3
    /\ \A e \in Range(EmployeesRead(resp)) : e.salary.text = "num"
    /\ \E e \in Range(EmployeesRead(resp)) :
          IsActive(e) /\ e.workerType = "local" /\ ~e.foreignWorkerLevy.null
    /\ \E e \in Range(EmployeesRead(resp)) :
          IsActive(e) /\ e.workerType = "foreign" /\ ~e.foreignWorkerLevy.null
    /\ resp.body.months[1].details.employeeCosts = Num(351000 + 265000)

\* C10: an employee whose status is not active contributes nothing to any
\* report: every report sent is the report of the same reads with the
\* employees that are not active left out.
C10_InactiveIgnored ==
    (resp.kind # "none" /\ resp.status = 200) =>
        LET idx == CASE resp.kind = "dashboard" -> 4 [] resp.kind = "pnl" -> 5
                     [] resp.kind = "cashflow" -> 2
        IN  resp.body =
               Body(resp, [resp.got EXCEPT ![idx] = SelectSeq(@, IsActive)],
                    resp.today, tz)

\* A P&L report with payroll, served from a repository that holds an employee
\* who is not active.
C10_Witness ==
    /\ Sent("pnl")
    /\ \E e \in Range(EmployeesRead(resp)) : ~IsActive(e)
    /\ \E e \in Range(EmployeesRead(resp)) : IsActive(e)
    /\ NGtZero(resp.body.expenses.employeeCosts)

\* The calendar months from the month of date s through the month of date e.
CalendarMonths(s, e) == MonthIndex(YM(e)) - MonthIndex(YM(s)) + 1

\* The forecast read one insurance record: that record.
OneInsurance(r) == r.kind = "cashflow" /\ r.status = 200 /\ Len(r.got[4]) = 1

\* C11: an insurance record with premium P whose term starts on the first
\* day of a calendar month contributes P / (calendar months of the term) to
\* details.vehicleInsurance of every forecast month from the start month
\* through the end month, and 0 to every forecast month outside the term.
C11_InsuranceProRata ==
    (OneInsurance(resp) /\ DayOf(resp.got[4][1].startDate) = 1
        /\ resp.got[4][1].startDate <= resp.got[4][1].endDate) =>
        LET ins == resp.got[4][1]
            m == resp.body.months
        IN  \A k \in 1..Len(m) :
               m[k].details.vehicleInsurance =
                  IF YM(ins.startDate) <= m[k].month /\ m[k].month <= YM(ins.endDate)
                  THEN NDivInt(parseFloat(ins.premium),
                               CalendarMonths(ins.startDate, ins.endDate))
                  ELSE Zero

\* The contributions of one insurance record to the forecast months, from
\* the month before its term starts through the month after it ends.
ContributionsOf(ins, zone) ==
    LET before == FirstOfMonth(AddMonths(YM(ins.startDate), -1))
        n == CalendarMonths(ins.startDate, ins.endDate) + 2
    IN  [k \in 1..n |->
            CashflowMonth(k - 1, before, zone, <<>>, <<>>, <<>>, <<ins>>, <<>>, <<>>)
               .details.vehicleInsurance]

\* C12: pro-rating conserves the premium: the contributions of an insurance
\* record with startDate <= endDate, summed over all calendar months, equal
\* its premium, whatever the day of the month its term starts on.
C12_PremiumConserved ==
    (OneInsurance(resp) /\ resp.got[4][1].startDate <= resp.got[4][1].endDate) =>
        NSum(ContributionsOf(resp.got[4][1], tz)) = parseFloat(resp.got[4][1].premium)

\* The forecast read no vehicle installment, insurance or parking record, and
\* every money field it read is a number.
NoVehicleCosts(r) ==
    /\ r.kind = "cashflow" /\ r.status = 200
    /\ r.got[3] = <<>> /\ r.got[4] = <<>> /\ r.got[5] = <<>>
    /\ ~ReadInvalidMoney(r)

MonthAfter(ym, i) ==
    LET total == (ym % 100) - 1 + i
    IN  ((ym \div 100) + (total \div 12)) * 100 + (total % 12) + 1

\* C14: for every periodMonths >= 1 the forecast returns exactly periodMonths
\* month records, the i-th (from 0) for the calendar month i months after the
\* current month, in increasing order with none skipped or repeated, also
\* across a year boundary; with no periodMonths it returns exactly 6.
C14_ForecastMonths ==
    Sent("cashflow") =>
        LET m == resp.body.months
            p == resp.query.period
        IN  /\ (p # <<>> /\ p[1] >= 1) => Len(m) = p[1]
            /\ p = <<>> => Len(m) = 6
            /\ (p = <<>> \/ p[1] >= 1) =>
                  /\ \A k \in 1..Len(m) : m[k].month = MonthAfter(YM(resp.today), k - 1)
                  /\ \A k \in 1..(Len(m) - 1) :
                        /\ m[k].month < m[k + 1].month
                        /\ MonthIndex(m[k + 1].month) = MonthIndex(m[k].month) + 1

\* A forecast of three months that starts in December and runs into the
\* next year.
C14_Witness ==
    /\ Sent("cashflow")
    /\ resp.query.period = <<3>>
    /\ Len(resp.body.months) = 3
    /\ resp.body.months[1].month = 202412
    /\ resp.body.months[2].month = 202501
    /\ resp.body.months[3].month = 202502

\* The dashboard was answered and every money field it read is a number.
DashboardSent == Sent("dashboard") /\ ~ReadInvalidMoney(resp)

\* The sum of the amounts of the rows of a sequence that pass a test.
AmountWhere(rows, Test(_)) ==
    NSum([i \in 1..Len(rows) |->
             IF Test(rows[i]) THEN Num(rows[i].amount.cents) ELSE Zero])

\* C15: monthlyTrend always has exactly 6 entries, for the current month and
\* the 5 calendar months before it, oldest first; the income of an entry is
\* the sum of the income entries with that billingPeriod, and its expenses
\* the sum of the expense entries dated in that month plus the one payroll
\* constant of the current active employees, so a month without income or
\* expense entries has income 0 and expenses equal to that constant.
C15_MonthlyTrend ==
    DashboardSent =>
        LET trend == resp.body.monthlyTrend
            payroll == RuleCostOf(SelectSeq(EmployeesRead(resp), IsActive))
        IN  /\ Len(trend) = 6
            /\ \A k \in 1..6 :
                  LET month == MonthAfter(YM(resp.today), k - 6)
                  IN  /\ trend[k].month = month % 100
                      /\ trend[k].income =
                            AmountWhere(resp.got[1], LAMBDA i : i.billingPeriod = month)
                      /\ trend[k].expenses =
                            NAdd(AmountWhere(resp.got[2],
                                             LAMBDA e : e.expenseDate \div 100 = month),
                                 payroll)
                      /\ (\A i \in Range(resp.got[1]) : i.billingPeriod # month)
                            => trend[k].income = Zero
                      /\ (\A e \in Range(resp.got[2]) : e.expenseDate \div 100 # month)
                            => trend[k].expenses = payroll

\* A dashboard in January whose trend starts in August of the year before:
\* months without entries carry the payroll alone, December carries income
\* and an expense on top of it.
C15_Witness ==
    /\ DashboardSent
    /\ YM(resp.today) = 202501
    /\ resp.body.monthlyTrend[1].month = 8
    /\ resp.body.monthlyTrend[1].income = Zero
    /\ resp.body.monthlyTrend[1].expenses = Num(351000)
    /\ resp.body.monthlyTrend[5].income = Num(100000)
    /\ resp.body.monthlyTrend[5].expenses = Num(356000)

C17_YtdThroughToday ==
    DashboardSent =>
        /\ resp.body.totalExpensesYTD =
              AmountWhere(resp.got[2],
                          LAMBDA e : e.expenseDate >= YearOf(resp.today) * 10000 + 101
                                     /\ e.expenseDate <= resp.today)
        /\ resp.body.totalIncomeYTD =
              AmountWhere(resp.got[1],
                          LAMBDA i : i.billingPeriod >= YearOf(resp.today) * 100 + 1
                                     /\ i.billingPeriod <= YM(resp.today))

\* The P&L was answered, every money field it read is a number, and no
\* category it read carries the name of the synthetic bucket.
PnlSent ==
    /\ Sent("pnl") /\ ~ReadInvalidMoney(resp)
    /\ \A c \in Range(resp.got[6]) : c.name # "Uncategorized"

\* C18: in byCategory, the matched expense entries without a category are
\* summed into exactly one entry named "Uncategorized", appended (last) only
\* when that sum is > 0; they are counted in no other entry, and the entry is
\* neither split nor repeated: one such expense of 50 gives the single entry
\* Uncategorized: 50.
C18_Uncategorized ==
    PnlSent =>
        LET by == resp.body.expenses.byCategory
            matched == resp.got[2]
            sum == AmountWhere(matched, LAMBDA e : e.categoryId = 0)
            named == {k \in 1..Len(by) : by[k].name = "Uncategorized"}
        IN  /\ named = IF sum.n > 0 THEN {Len(by)} ELSE {}
            /\ \A k \in named : by[k].amount = sum
            /\ \A k \in (1..Len(by)) \ named :
                  \E c \in Range(resp.got[6]) :
                     /\ c.name = by[k].name
                     /\ by[k].amount = AmountWhere(matched, LAMBDA e : e.categoryId = c.id)
            /\ (\E e \in Range(matched) :
                   /\ e.categoryId = 0 /\ e.amount = Dec(5000)
                   /\ \A x \in Range(matched) : x.categoryId = 0 => x = e) =>
                  /\ Len(by) > 0
                  /\ by[Len(by)] = [name |-> "Uncategorized", amount |-> Num(5000)]

\* A P&L whose range matches one expense with a category and one of 50
\* without: byCategory is Fuel: 50, Uncategorized: 50.
C18_Witness ==
    /\ PnlSent
    /\ Len(resp.got[2]) = 2
    /\ resp.body.expenses.byCategory =
          <<[name |-> "Fuel", amount |-> Num(5000)],
            [name |-> "Uncategorized", amount |-> Num(5000)]>>

\* C19: in income.byCustomer each customer appears at most once, with the
\* sum of the matched income entries of that customer; a customer is listed
\* exactly when that sum is not zero.
C19_ByCustomer ==
    PnlSent =>
        LET by == resp.body.income.byCustomer
            sumOf(c) == AmountWhere(resp.got[1], LAMBDA i : i.customerId = c.id)
        IN  /\ \A j, k \in 1..Len(by) : j # k => by[j].name # by[k].name
            /\ \A k \in 1..Len(by) :
                  \E c \in Range(resp.got[3]) :
                     by[k].name = c.name /\ by[k].amount = sumOf(c)
            /\ \A c \in Range(resp.got[3]) :
                  (\E k \in 1..Len(by) : by[k].name = c.name) <=> sumOf(c) # Zero

\* C20: in the P&L, subcontractorCosts = (the calendar months from the
\* month of from through the month of to) times the subcontractorCost of the
\* routes that are subcontracted, active and carry a cost, and employeeCosts =
\* the same month count times the monthly employer cost of the active
\* employees; a route that is owned or inactive adds nothing even when it
\* carries a subcontractorCost.
C20_PnlMonthlyCosts ==
    PnlSent =>
        LET months == CalendarMonths(resp.from, resp.to)
            routes == resp.got[4]
            monthly ==
                NSum([i \in 1..Len(routes) |->
                         IF routes[i].routeType = "subcontracted"
                            /\ routes[i].status = "active"
                            /\ ~routes[i].subcontractorCost.null
                         THEN Num(routes[i].subcontractorCost.cents) ELSE Zero])
        IN  /\ resp.body.expenses.subcontractorCosts = NMulInt(monthly, months)
            /\ resp.body.expenses.employeeCosts =
                  NMulInt(RuleCostOf(SelectSeq(EmployeesRead(resp), IsActive)), months)

\* C21: the month count used as multiplier (P&L) and divisor (insurance) is
\* (to.year - from.year) * 12 + (to.month - from.month) + 1 on the year and
\* month written in the date strings, whatever the day of the month: 1 for
\* two dates in the same month, 12 for 2024-01-01..2024-12-31 and 3 for
\* 2024-01-15..2024-03-01.
C21_MonthCount ==
    /\ Sent("pnl") =>
          /\ monthsSpanned(resp.from, resp.to, tz) = CalendarMonths(resp.from, resp.to)
          /\ YM(resp.from) = YM(resp.to) => monthsSpanned(resp.from, resp.to, tz) = 1
          /\ (resp.from = 20240101 /\ resp.to = 20241231) =>
                monthsSpanned(resp.from, resp.to, tz) = 12
          /\ (resp.from = 20240115 /\ resp.to = 20240301) =>
                monthsSpanned(resp.from, resp.to, tz) = 3
    /\ OneInsurance(resp) =>
          monthsSpanned(resp.got[4][1].startDate, resp.got[4][1].endDate, tz) =
             CalendarMonths(resp.got[4][1].startDate, resp.got[4][1].endDate)

\* C22: a P&L over [from, to] uses exactly the income entries whose
\* billingPeriod lies between the month of from and the month of to (whole
\* months, whatever the day of the month of from and to) and exactly the
\* expense entries dated from from through to: every row it read is such an
\* entry, none twice, and when no write came between its reads it read all
\* of them.
C22_PnlSelection ==
    Sent("pnl") =>
        LET income == resp.got[1]
            expenses == resp.got[2]
            wantedIncome(i) ==
                i.billingPeriod >= resp.from \div 100 /\ i.billingPeriod <= resp.to \div 100
            wantedExpense(e) == e.expenseDate >= resp.from /\ e.expenseDate <= resp.to
        IN  /\ NoRepeats(income) /\ NoRepeats(expenses)
            /\ \A i \in Range(income) : wantedIncome(i)
            /\ \A e \in Range(expenses) : wantedExpense(e)
            /\ ~resp.dirty =>
                  /\ Range(income) = {i \in db.incomeRecords : wantedIncome(i)}
                  /\ Range(expenses) = {e \in db.expenses : wantedExpense(e)}

\* A P&L over 2024-01-15..2024-03-01: the income entry billed for January is
\* used though the range starts on the 15th, the one billed for December
\* and the expense of December are not.
C22_Witness ==
    /\ Sent("pnl") /\ ~resp.dirty
    /\ resp.from = 20240115 /\ resp.to = 20240301
    /\ \E i \in Range(resp.got[1]) : i.billingPeriod = 202401
    /\ \E i \in db.incomeRecords : i.billingPeriod = 202412
    /\ resp.got[2] = <<>> /\ db.expenses # {}

\* C23: with M the first day of a forecast month, an installment contributes
\* its flat monthlyAmount to that month exactly when startDate <= M <= endDate,
\* and a parking record its flat monthlyCost exactly when startDate <= M and
\* (endDate is unset or M <= endDate); an open-ended parking record contributes
\* to every forecast month at or after its startDate.
C23_FlatVehicleCosts ==
    Sent("cashflow") =>
        LET installments == resp.got[3]
            parking == resp.got[5]
            m == resp.body.months
        IN  \A k \in 1..Len(m) :
               LET M == FirstOfMonth(m[k].month)
               IN  /\ m[k].details.vehicleInstallments =
                         NSum([i \in 1..Len(installments) |->
                                 IF installments[i].startDate <= M
                                       /\ M <= installments[i].endDate
                                 THEN parseFloat(installments[i].monthlyAmount)
                                 ELSE Zero])
                   /\ m[k].details.vehicleParking =
                         NSum([i \in 1..Len(parking) |->
                                 IF parking[i].startDate <= M
                                       /\ (parking[i].endDate = 0 \/ M <= parking[i].endDate)
                                 THEN parseFloat(parking[i].monthlyCost)
                                 ELSE Zero])

\* C24: in every forecast month details.recurringExpenses is the sum of the
\* amounts of the expense entries with isRecurring and recurringFrequency
\* "monthly", whatever their expenseDate; the entries that are not recurring,
\* or recurring quarterly or yearly, change no forecast value: the forecast is
\* the one computed without them.
C24_RecurringExpenses ==
    Sent("cashflow") =>
        LET expenses == resp.got[6]
            monthly(e) == e.isRecurring = TRUE /\ e.recurringFrequency = "monthly"
            m == resp.body.months
        IN  /\ \A k \in 1..Len(m) :
                  m[k].details.recurringExpenses =
                     NSum([i \in 1..Len(expenses) |->
                             IF monthly(expenses[i]) THEN parseFloat(expenses[i].amount)
                             ELSE Zero])
            /\ resp.body =
                  CashflowBody(ParsePeriod(resp.query), resp.today, tz,
                               resp.got[1], resp.got[2], resp.got[3], resp.got[4],
                               resp.got[5], SelectSeq(expenses, monthly))

\* A forecast starting in December 2024 that read a monthly recurring expense
\* of 50.00 dated 2025-01-20, a quarterly recurring one and one that is not
\* recurring: every month, December included, has recurringExpenses 50.00.
C24_Witness ==
    /\ Sent("cashflow")
    /\ Len(resp.body.months) >= 3
    /\ resp.body.months[1].month = 202412
    /\ \E e \in Range(resp.got[6]) :
          e.isRecurring /\ e.recurringFrequency = "monthly" /\ e.expenseDate = 20250120
    /\ \E e \in Range(resp.got[6]) : e.isRecurring /\ e.recurringFrequency = "quarterly"
    /\ \E e \in Range(resp.got[6]) : ~e.isRecurring
    /\ \A k \in 1..Len(resp.body.months) :
          resp.body.months[k].details.recurringExpenses = Num(5000)

\* C25: after any sequence of toggleWidget and moveWidget operations,
\* resetWidgets restores the default dashboard: the widgets displayed are all
\* nine, in the order of DEFAULT_WIDGETS as written in the source.
C25_ResetRestoresDefault ==
    op = "resetWidgets" => visibleWidgets(widgetConfig, DEFAULT_WIDGETS) = WidgetIds

C27_NoDivisionByZero ==
    Sent("cashflow") =>
        LET insurance == resp.got[4]
            m == resp.body.months
        IN  \A k \in 1..Len(m) :
               /\ \A i \in 1..Len(insurance) :
                     LET start == insurance[i].startDate
                         end == insurance[i].endDate
                     IN  /\ ActiveIn(m[k].month, start, end, tz) =>
                               monthsSpanned(start, end, tz) >= 1
                         /\ end < start => ~ActiveIn(m[k].month, start, end, tz)
               /\ ~ReadInvalidMoney(resp) =>
                     /\ ~m[k].details.vehicleInsurance.nan
                     /\ m[k].details.vehicleInsurance.n >= 0

\* A forecast that read an insurance record active in one of its months,
\* which contributes its premium divided by a month count of 12.
C27_Witness ==
    /\ Sent("cashflow")
    /\ \E i \in 1..Len(resp.got[4]) : \E k \in 1..Len(resp.body.months) :
          /\ ActiveIn(resp.body.months[k].month, resp.got[4][i].startDate,
                      resp.got[4][i].endDate, tz)
          /\ monthsSpanned(resp.got[4][i].startDate, resp.got[4][i].endDate, tz) = 12
          /\ resp.body.months[k].details.vehicleInsurance = Num(20000)

\* C28: in every dashboard result the last monthlyTrend entry describes the
\* current month and agrees with the headline figures: its income is
\* totalIncomeMonth and its expenses are totalExpensesMonth.
C28_TrendEndsWithHeadline ==
    Sent("dashboard") =>
        LET trend == resp.body.monthlyTrend
            last == trend[Len(trend)]
        IN  /\ Len(trend) > 0
            /\ last.month = MonthOf(resp.today)
            /\ last.income = resp.body.totalIncomeMonth
            /\ last.expenses = resp.body.totalExpensesMonth

\* A December dashboard with income and expenses in the month that differ
\* from those of November: the last trend entry carries December's.
C28_Witness ==
    /\ Sent("dashboard")
    /\ MonthOf(resp.today) = 12
    /\ resp.body.totalIncomeMonth = Num(100000)
    /\ resp.body.monthlyTrend[6].income = Num(100000)
    /\ resp.body.monthlyTrend[5].income = Zero
    /\ resp.body.monthlyTrend[6].expenses = Num(5000 + 351000)
    /\ resp.body.monthlyTrend[5].expenses = Num(7000 + 351000)

\* C29: when create, update and delete operations interleave with the reads
\* of one P&L request, the report returned is still the report of one single
\* repository state that existed at some moment during the request.
C29_PnlOneState ==
    Sent("pnl") =>
        \E d \in seen :
            resp.body =
               PnlBody(resp.from, resp.to, tz,
                       Query("getIncomeByPeriod", d, resp.from, resp.to),
                       Query("getExpensesByPeriod", d, resp.from, resp.to),
                       Query("getCustomers", d, resp.from, resp.to),
                       Query("getRoutes", d, resp.from, resp.to),
                       Query("getEmployees", d, resp.from, resp.to),
                       Query("getExpenseCategories", d, resp.from, resp.to))

\* The P&L of the repository d for the calendar month of the date today,
\* from its first day to its last.
PnlOfMonth(today, zone, d) ==
    LET from == FirstOfMonth(YM(today))
        to == MkDate(YearOf(today), MonthOf(today), DaysInMonth(YearOf(today), MonthOf(today)))
    IN  PnlBody(from, to, zone,
                Query("getIncomeByPeriod", d, from, to),
                Query("getExpensesByPeriod", d, from, to),
                Query("getCustomers", d, from, to),
                Query("getRoutes", d, from, to),
                Query("getEmployees", d, from, to),
                Query("getExpenseCategories", d, from, to))

\* C30: the dashboard and the P&L agree on the current month: for the same
\* repository state, netProfitMonth of the dashboard equals netProfit of the
\* P&L for the range from the first to the last day of the current month.
C30_DashboardAgreesWithPnl ==
    (Sent("dashboard") /\ ~resp.dirty) =>
        resp.body.netProfitMonth = PnlOfMonth(resp.today, tz, db).netProfit

====
